---- MODULE Spec2Model ----
(***************************************************************************)
(* Model of pr-summary-generator (bin/pr-summary.js): the configuration    *)
(* loader, the git collaborators, the classification pipeline              *)
(* (detectPRType, categorizeFiles, analyzeComplexity, generateSuggestions),*)
(* the renderers and main().  JavaScript strings are TLA+ strings, handled *)
(* with Len, SubSeq and \o; arrays are sequences.                          *)
(***************************************************************************)
EXTENDS Naturals, Sequences, FiniteSets, TLC

VARIABLES
    pc,           \* position of the program (or of the function under analysis)
    argv,         \* process.argv.slice(2)
    fsConfig,     \* configuration candidates on disk: name -> content
    repo,         \* what git answers: [isRepo, branch, commitLog, fileLog, numstat]
    config,       \* module-level `config` (line 88)
    baseBranch,   \* module-level `baseBranch` (line 90)
    outputFile,   \* module-level `outputFile` (line 92)
    currentBranch,
    commits,
    allFiles,
    files,
    prType,
    categories,
    stats,        \* `lines` of analyzeComplexity: the numstat output, split
    analysis,
    suggestions,
    template,
    aiPrompt,
    disk,         \* writes made to the file system: <<[path, content]>>
    clipboard,
    console,      \* sequence of warnings/errors printed
    events,       \* sequence of external calls made, in order
    gitFailed,    \* set of git queries that failed in this run
    exitCode

vars == <<pc, argv, fsConfig, repo, config, baseBranch, outputFile,
          currentBranch, commits, allFiles, files, prType, categories, stats,
          analysis, suggestions, template, aiPrompt, disk, clipboard, console,
          events, gitFailed, exitCode>>

NULL == "<null>"

-----------------------------------------------------------------------------
(* String.prototype helpers *)

\* s.includes(sub)
Includes(s, sub) ==
    \E i \in 1..(Len(s) + 1) :
        /\ i + Len(sub) - 1 <= Len(s)
        /\ SubSeq(s, i, i + Len(sub) - 1) = sub

\* s.startsWith(p)
StartsWith(s, p) == Len(p) <= Len(s) /\ SubSeq(s, 1, Len(p)) = p

\* s.endsWith(p)
EndsWith(s, p) ==
    Len(p) <= Len(s) /\ SubSeq(s, Len(s) - Len(p) + 1, Len(s)) = p

UpperChars == "ABCDEFGHIJKLMNOPQRSTUVWXYZ"
LowerChars == "abcdefghijklmnopqrstuvwxyz"

UpperSet == {SubSeq(UpperChars, i, i) : i \in 1..Len(UpperChars)}

\* upper-case letter -> its lower-case letter
LowerMap ==
    [c \in UpperSet |->
        SubSeq(LowerChars,
               CHOOSE j \in 1..Len(UpperChars) : SubSeq(UpperChars, j, j) = c,
               CHOOSE j \in 1..Len(UpperChars) : SubSeq(UpperChars, j, j) = c)]

LowerChar(c) == IF c \in UpperSet THEN LowerMap[c] ELSE c

RECURSIVE ToLowerCase(_)
\* s.toLowerCase()
ToLowerCase(s) ==
    IF Len(s) = 0 THEN ""
    ELSE LowerChar(SubSeq(s, 1, 1)) \o ToLowerCase(SubSeq(s, 2, Len(s)))

RECURSIVE Join(_, _)
\* array.join(sep)
Join(arr, sep) ==
    IF arr = <<>> THEN ""
    ELSE IF Len(arr) = 1 THEN arr[1]
    ELSE arr[1] \o sep \o Join(Tail(arr), sep)

RECURSIVE IndexOfFrom(_, _, _)
\* s.indexOf(c, i) for a one-character c, 1-based; 0 when there is none
IndexOfFrom(s, c, i) ==
    IF i > Len(s) THEN 0
    ELSE IF SubSeq(s, i, i) = c THEN i
    ELSE IndexOfFrom(s, c, i + 1)

RECURSIVE Split(_, _)
\* s.split(sep) for a one-character separator
Split(s, sep) ==
    LET i == IndexOfFrom(s, sep, 1)
    IN  IF i = 0 THEN <<s>>
        ELSE <<SubSeq(s, 1, i - 1)>> \o Split(SubSeq(s, i + 1, Len(s)), sep)

\* array.filter(Boolean) on an array of strings: drops the empty strings
FilterBoolean(arr) == SelectSeq(arr, LAMBDA x : x # "")

IsSpace(c) == c \in {" ", "\n", "\t", "\r"}

RECURSIVE Trim(_)
\* s.trim()
Trim(s) ==
    IF Len(s) = 0 THEN s
    ELSE IF IsSpace(SubSeq(s, 1, 1)) THEN Trim(SubSeq(s, 2, Len(s)))
    ELSE IF IsSpace(SubSeq(s, Len(s), Len(s))) THEN Trim(SubSeq(s, 1, Len(s) - 1))
    ELSE s

\* array.filter((x, i, self) => self.indexOf(x) === i): first occurrences
RECURSIVE Dedupe(_)
Dedupe(arr) ==
    IF arr = <<>> THEN <<>>
    ELSE LET init == SubSeq(arr, 1, Len(arr) - 1)
             last == arr[Len(arr)]
         IN  IF \E i \in 1..Len(init) : init[i] = last
             THEN Dedupe(init)
             ELSE Append(Dedupe(init), last)

\* the elements of an array, as a set
Elems(arr) == {arr[i] : i \in DOMAIN arr}

-----------------------------------------------------------------------------
(* Exclusion patterns.  A RegExp literal of the source is a record         *)
(* [isRegExp |-> TRUE, start, lit, end]: ^ anchor, literal text, $ anchor. *)
(* A pattern read from a JSON configuration file is a JavaScript string:   *)
(* the same record with isRegExp = FALSE (its text is the regex source).   *)

RegExp(start, lit, end) ==
    [isRegExp |-> TRUE, start |-> start, lit |-> lit, end |-> end]

SourceString(start, lit, end) ==
    [isRegExp |-> FALSE, start |-> start, lit |-> lit, end |-> end]

\* pattern.test(file) for a RegExp object
RegExpTest(pattern, file) ==
    IF pattern.start /\ pattern.end THEN file = pattern.lit
    ELSE IF pattern.start THEN StartsWith(file, pattern.lit)
    ELSE IF pattern.end THEN EndsWith(file, pattern.lit)
    ELSE Includes(file, pattern.lit)

defaultExcludePatterns ==
    << RegExp(TRUE, ".windsurf/", FALSE),
       RegExp(TRUE, ".cursor/", FALSE),
       RegExp(TRUE, ".vscode/", FALSE),
       RegExp(TRUE, ".idea/", FALSE),
       RegExp(TRUE, "node_modules/", FALSE),
       RegExp(TRUE, ".next/", FALSE),
       RegExp(TRUE, "dist/", FALSE),
       RegExp(TRUE, "build/", FALSE),
       RegExp(TRUE, "coverage/", FALSE),
       RegExp(FALSE, ".log", TRUE),
       RegExp(TRUE, ".env", FALSE),
       RegExp(TRUE, ".gitignore", TRUE),
       RegExp(TRUE, "package-lock.json", TRUE),
       RegExp(TRUE, "yarn.lock", TRUE) >>

defaultConfig ==
    [baseBranch |-> "main",
     outputFile |-> "PR_SUMMARY.md",
     excludePatterns |-> defaultExcludePatterns]

RECURSIVE SomeTest(_, _)
\* patterns.some((pattern) => pattern.test(file)): "true", "false", or
\* "TypeError" when a pattern that is not a RegExp is reached (a string has
\* no method test) before any pattern matched
SomeTest(patterns, file) ==
    IF patterns = <<>> THEN "false"
    ELSE IF ~Head(patterns).isRegExp THEN "TypeError"
    ELSE IF RegExpTest(Head(patterns), file) THEN "true"
    ELSE SomeTest(Tail(patterns), file)

\* the exclusion filter throws on some file of the list
FilterThrows(patterns, fileList) ==
    \E i \in DOMAIN fileList : SomeTest(patterns, fileList[i]) = "TypeError"

\* line 308 without the filter: every changed file is kept
FilterExcluded_keepAll(patterns, fileList) == fileList

\* files.filter((file) => !patterns.some(...)), when it does not throw
FilterExcluded(patterns, fileList) ==
    SelectSeq(fileList, LAMBDA f : SomeTest(patterns, f) = "false")

-----------------------------------------------------------------------------
(* detectPRType *)

PRType(type, emoji) == [type |-> type, emoji |-> emoji]

PRTypes ==
    { PRType("Fix", "bug"), PRType("Feature", "sparkles"),
      PRType("Refactor", "recycle"), PRType("Docs", "memo"),
      PRType("Test", "test_tube"), PRType("Performance", "zap"),
      PRType("Chore", "wrench") }

\* detectPRType with the Feature rule tried before the Fix rule
detectPRType_featureFirst(commitList, fileList) ==
    LET commitText == ToLowerCase(Join(commitList, " "))
        fileText   == ToLowerCase(Join(fileList, " "))
    IN  IF \/ Includes(commitText, "feat")
           \/ Includes(commitText, "feature")
           \/ Includes(commitText, "add")
        THEN PRType("Feature", "sparkles")
        ELSE IF \/ Includes(commitText, "fix")
                \/ Includes(commitText, "bug")
                \/ Includes(commitText, "resolve")
        THEN PRType("Fix", "bug")
        ELSE IF \/ Includes(commitText, "refactor")
                \/ Includes(commitText, "restructure")
        THEN PRType("Refactor", "recycle")
        ELSE IF \/ Includes(commitText, "docs")
                \/ Includes(commitText, "documentation")
                \/ Includes(fileText, ".md")
        THEN PRType("Docs", "memo")
        ELSE IF \/ Includes(commitText, "test")
                \/ Includes(fileText, "test")
                \/ Includes(fileText, "spec")
        THEN PRType("Test", "test_tube")
        ELSE IF \/ Includes(commitText, "perf")
                \/ Includes(commitText, "performance")
                \/ Includes(commitText, "optimize")
        THEN PRType("Performance", "zap")
        ELSE PRType("Chore", "wrench")

detectPRType(commitList, fileList) ==
    LET commitText == ToLowerCase(Join(commitList, " "))
        fileText   == ToLowerCase(Join(fileList, " "))
    IN  IF \/ Includes(commitText, "fix")
           \/ Includes(commitText, "bug")
           \/ Includes(commitText, "resolve")
        THEN PRType("Fix", "bug")
        ELSE IF \/ Includes(commitText, "feat")
                \/ Includes(commitText, "feature")
                \/ Includes(commitText, "add")
        THEN PRType("Feature", "sparkles")
        ELSE IF \/ Includes(commitText, "refactor")
                \/ Includes(commitText, "restructure")
        THEN PRType("Refactor", "recycle")
        ELSE IF \/ Includes(commitText, "docs")
                \/ Includes(commitText, "documentation")
                \/ Includes(fileText, ".md")
        THEN PRType("Docs", "memo")
        ELSE IF \/ Includes(commitText, "test")
                \/ Includes(fileText, "test")
                \/ Includes(fileText, "spec")
        THEN PRType("Test", "test_tube")
        ELSE IF \/ Includes(commitText, "perf")
                \/ Includes(commitText, "performance")
                \/ Includes(commitText, "optimize")
        THEN PRType("Performance", "zap")
        ELSE PRType("Chore", "wrench")

-----------------------------------------------------------------------------
(* categorizeFiles *)

\* the keys of `categories`, in the insertion order of the object literal
CategoryKeys ==
    << "components", "hooks", "utils", "types", "styles", "tests", "docs",
       "config", "scripts", "other" >>

emptyCategories == [k \in Elems(CategoryKeys) |-> <<>>]

\* file.match(/\.(scss|css|less|sass)$/)
MatchesStyles(file) ==
    \E ext \in {"scss", "css", "less", "sass"} : EndsWith(file, "." \o ext)

\* file.match(/\.(test|spec)\.(ts|tsx|js|jsx)$/)
MatchesTests(file) ==
    \E kind \in {"test", "spec"}, ext \in {"ts", "tsx", "js", "jsx"} :
        EndsWith(file, "." \o kind \o "." \o ext)

\* file.match(/\.(json|yml|yaml|config\.(ts|js))$/)
MatchesConfig(file) ==
    \E ext \in {"json", "yml", "yaml", "config.ts", "config.js"} :
        EndsWith(file, "." \o ext)

Push(cats, key, file) == [cats EXCEPT ![key] = Append(@, file)]

\* categorizePush with the `else` before the tests rule dropped: the chain of
\* lines 198-202 and the chain of lines 203-207 both run
categorizePush_twoChains(cats, file) ==
    LET c1 == IF Includes(file, "components/") \/ Includes(file, "src/components/")
              THEN Push(cats, "components", file)
              ELSE IF Includes(file, "hooks/") \/ Includes(file, "src/hooks/")
              THEN Push(cats, "hooks", file)
              ELSE IF Includes(file, "utils/") \/ Includes(file, "src/utils/")
              THEN Push(cats, "utils", file)
              ELSE IF Includes(file, "types/") \/ Includes(file, "src/types/")
              THEN Push(cats, "types", file)
              ELSE IF MatchesStyles(file)
              THEN Push(cats, "styles", file)
              ELSE cats
    IN  IF MatchesTests(file)
        THEN Push(c1, "tests", file)
        ELSE IF Includes(file, "scripts/") \/ Includes(file, "src/scripts/")
        THEN Push(c1, "scripts", file)
        ELSE IF EndsWith(file, ".md") /\ ~Includes(file, "node_modules")
        THEN Push(c1, "docs", file)
        ELSE IF MatchesConfig(file)
        THEN Push(c1, "config", file)
        ELSE Push(c1, "other", file)

\* the chain with the scripts/ test moved up to the other directory tests
categorizePush_scriptsFirst(cats, file) ==
    IF Includes(file, "components/") \/ Includes(file, "src/components/")
    THEN Push(cats, "components", file)
    ELSE IF Includes(file, "hooks/") \/ Includes(file, "src/hooks/")
    THEN Push(cats, "hooks", file)
    ELSE IF Includes(file, "utils/") \/ Includes(file, "src/utils/")
    THEN Push(cats, "utils", file)
    ELSE IF Includes(file, "types/") \/ Includes(file, "src/types/")
    THEN Push(cats, "types", file)
    ELSE IF Includes(file, "scripts/") \/ Includes(file, "src/scripts/")
    THEN Push(cats, "scripts", file)
    ELSE IF MatchesStyles(file)
    THEN Push(cats, "styles", file)
    ELSE IF MatchesTests(file)
    THEN Push(cats, "tests", file)
    ELSE IF EndsWith(file, ".md") /\ ~Includes(file, "node_modules")
    THEN Push(cats, "docs", file)
    ELSE IF MatchesConfig(file)
    THEN Push(cats, "config", file)
    ELSE Push(cats, "other", file)

\* the chain with every .md path taken as documentation
categorizePush_anyMarkdown(cats, file) ==
    IF Includes(file, "components/") \/ Includes(file, "src/components/")
    THEN Push(cats, "components", file)
    ELSE IF Includes(file, "hooks/") \/ Includes(file, "src/hooks/")
    THEN Push(cats, "hooks", file)
    ELSE IF Includes(file, "utils/") \/ Includes(file, "src/utils/")
    THEN Push(cats, "utils", file)
    ELSE IF Includes(file, "types/") \/ Includes(file, "src/types/")
    THEN Push(cats, "types", file)
    ELSE IF MatchesStyles(file)
    THEN Push(cats, "styles", file)
    ELSE IF MatchesTests(file)
    THEN Push(cats, "tests", file)
    ELSE IF Includes(file, "scripts/") \/ Includes(file, "src/scripts/")
    THEN Push(cats, "scripts", file)
    ELSE IF EndsWith(file, ".md")
    THEN Push(cats, "docs", file)
    ELSE IF MatchesConfig(file)
    THEN Push(cats, "config", file)
    ELSE Push(cats, "other", file)

\* the if / else-if chain of lines 198-207 for one non-excluded file
categorizePush(cats, file) ==
    IF Includes(file, "components/") \/ Includes(file, "src/components/")
    THEN Push(cats, "components", file)
    ELSE IF Includes(file, "hooks/") \/ Includes(file, "src/hooks/")
    THEN Push(cats, "hooks", file)
    ELSE IF Includes(file, "utils/") \/ Includes(file, "src/utils/")
    THEN Push(cats, "utils", file)
    ELSE IF Includes(file, "types/") \/ Includes(file, "src/types/")
    THEN Push(cats, "types", file)
    ELSE IF MatchesStyles(file)
    THEN Push(cats, "styles", file)
    ELSE IF MatchesTests(file)
    THEN Push(cats, "tests", file)
    ELSE IF Includes(file, "scripts/") \/ Includes(file, "src/scripts/")
    THEN Push(cats, "scripts", file)
    ELSE IF EndsWith(file, ".md") /\ ~Includes(file, "node_modules")
    THEN Push(cats, "docs", file)
    ELSE IF MatchesConfig(file)
    THEN Push(cats, "config", file)
    ELSE Push(cats, "other", file)

\* the body of the forEach callback: skip an excluded file, else categorize
categorizeOne(cats, cfg, file) ==
    IF SomeTest(cfg.excludePatterns, file) = "true"
    THEN cats
    ELSE categorizePush(cats, file)

RECURSIVE categorizeLoop(_, _, _)
categorizeLoop(cats, cfg, fileList) ==
    IF fileList = <<>> THEN cats
    ELSE categorizeLoop(categorizeOne(cats, cfg, Head(fileList)), cfg,
                        Tail(fileList))

\* categorizeFiles(files), reading the module-level config; defined when the
\* exclusion test does not throw (FilterThrows)
categorizeFiles(fileList, cfg) == categorizeLoop(emptyCategories, cfg, fileList)

-----------------------------------------------------------------------------
(* generateSuggestions *)

MsgScreenshots == "Consider adding screenshots for UI changes"
MsgAccessibility == "Verify accessibility with screen reader"
MsgHooks == "Add unit tests for custom hooks"
MsgUtils == "Aim for 100% test coverage on utility functions"
MsgNoTests == "No test files modified - consider adding tests"
MsgTypes == "Update JSDoc comments for type changes"
MsgResponsive == "Test responsive design on mobile devices"
MsgDarkMode == "Verify dark mode compatibility (if applicable)"

\* generateSuggestions with the no-tests rule placed after the types rule
generateSuggestions_noTestsLate(cats, type) ==
    LET s0 == <<>>
        s1 == IF Len(cats["components"]) > 0
              THEN s0 \o <<MsgScreenshots, MsgAccessibility>> ELSE s0
        s2 == IF Len(cats["hooks"]) > 0 THEN Append(s1, MsgHooks) ELSE s1
        s3 == IF Len(cats["utils"]) > 0 THEN Append(s2, MsgUtils) ELSE s2
        s4 == IF Len(cats["types"]) > 0 THEN Append(s3, MsgTypes) ELSE s3
        s5 == IF Len(cats["tests"]) = 0 /\ type.type # "Docs"
              THEN Append(s4, MsgNoTests) ELSE s4
        s6 == IF Len(cats["styles"]) > 0
              THEN s5 \o <<MsgResponsive, MsgDarkMode>> ELSE s5
    IN  s6

generateSuggestions(cats, type) ==
    LET s0 == <<>>
        s1 == IF Len(cats["components"]) > 0
              THEN s0 \o <<MsgScreenshots, MsgAccessibility>> ELSE s0
        s2 == IF Len(cats["hooks"]) > 0 THEN Append(s1, MsgHooks) ELSE s1
        s3 == IF Len(cats["utils"]) > 0 THEN Append(s2, MsgUtils) ELSE s2
        s4 == IF Len(cats["tests"]) = 0 /\ type.type # "Docs"
              THEN Append(s3, MsgNoTests) ELSE s3
        s5 == IF Len(cats["types"]) > 0 THEN Append(s4, MsgTypes) ELSE s4
        s6 == IF Len(cats["styles"]) > 0
              THEN s5 \o <<MsgResponsive, MsgDarkMode>> ELSE s5
    IN  s6

-----------------------------------------------------------------------------
(* analyzeComplexity *)

Digits == "0123456789"

DigitSet == {SubSeq(Digits, i, i) : i \in 1..Len(Digits)}

\* decimal digit -> its value
DigitMap ==
    [c \in DigitSet |-> (CHOOSE i \in 1..Len(Digits) : SubSeq(Digits, i, i) = c) - 1]

IsDigit(c) == c \in DigitSet

DigitValue(c) == DigitMap[c]

RECURSIVE DecimalValue(_)
DecimalValue(s) ==
    IF Len(s) = 0 THEN 0
    ELSE 10 * DecimalValue(SubSeq(s, 1, Len(s) - 1))
         + DigitValue(SubSeq(s, Len(s), Len(s)))

\* a JavaScript number that is a natural number, or NaN
Num(n) == [nan |-> FALSE, val |-> n]
NaN == [nan |-> TRUE, val |-> 0]

\* Number(field) for the fields met here: "" and blank text give 0, a run of
\* decimal digits gives its value, any other text gives NaN
NumberOf(field) ==
    LET t == Trim(field)
    IN  IF t = "" THEN Num(0)
        ELSE IF \A i \in 1..Len(t) : IsDigit(SubSeq(t, i, i))
        THEN Num(DecimalValue(t))
        ELSE NaN

\* const [added, removed] = line.split('\t').map(Number); a missing element
\* is undefined, which behaves as NaN in `x || 0` and in `added + removed`
ParseStatLine(line) ==
    LET fields == Split(line, "\t")
    IN  [added   |-> IF Len(fields) >= 1 THEN NumberOf(fields[1]) ELSE NaN,
         removed |-> IF Len(fields) >= 2 THEN NumberOf(fields[2]) ELSE NaN]

\* x || 0
OrZero(x) == IF x.nan THEN 0 ELSE x.val

LargeFileThreshold == 200

\* IsLargeFile with each operand defaulted to 0 as in the two totals
IsLargeFile_orZero(p) ==
    OrZero(p.added) + OrZero(p.removed) > LargeFileThreshold

\* added + removed > 200 (false when either operand is NaN)
IsLargeFile(p) ==
    ~p.added.nan /\ ~p.removed.nan
    /\ p.added.val + p.removed.val > LargeFileThreshold

RECURSIVE statsLoop(_, _)
\* the forEach of lines 264-269, accumulating into acc
statsLoop(acc, lines) ==
    IF lines = <<>> THEN acc
    ELSE LET p == ParseStatLine(Head(lines))
         IN  statsLoop([totalAdded   |-> acc.totalAdded + OrZero(p.added),
                        totalRemoved |-> acc.totalRemoved + OrZero(p.removed),
                        largeFiles   |-> acc.largeFiles
                                         + (IF IsLargeFile(p) THEN 1 ELSE 0)],
                       Tail(lines))

StatTotals(lines) ==
    statsLoop([totalAdded |-> 0, totalRemoved |-> 0, largeFiles |-> 0], lines)

complexityOf(totalChanges, largeFiles) ==
    IF totalChanges > 1000 \/ largeFiles > 3 THEN "High"
    ELSE IF totalChanges > 300 \/ largeFiles > 1 THEN "Medium"
    ELSE "Low"

\* riskOf with the two assignments in the other order: Medium overrides High
riskOf_mediumLast(totalAdded, totalRemoved, totalChanges, largeFiles) ==
    LET r1 == IF largeFiles > 5 \/ totalChanges > 2000 THEN "High" ELSE "Low"
    IN  IF largeFiles > 2 \/ totalRemoved > totalAdded * 2 THEN "Medium" ELSE r1

\* riskOf with the operands of the removal test exchanged
riskOf_swapped(totalAdded, totalRemoved, totalChanges, largeFiles) ==
    LET r1 == IF largeFiles > 2 \/ totalAdded > totalRemoved * 2
              THEN "Medium" ELSE "Low"
    IN  IF largeFiles > 5 \/ totalChanges > 2000 THEN "High" ELSE r1

\* riskOf with the total-changes limit of the High tier written as 200
riskOf_lowLimit(totalAdded, totalRemoved, totalChanges, largeFiles) ==
    LET r1 == IF largeFiles > 2 \/ totalRemoved > totalAdded * 2
              THEN "Medium" ELSE "Low"
    IN  IF largeFiles > 5 \/ totalChanges > 200 THEN "High" ELSE r1

riskOf(totalAdded, totalRemoved, totalChanges, largeFiles) ==
    LET r1 == IF largeFiles > 2 \/ totalRemoved > totalAdded * 2
              THEN "Medium" ELSE "Low"
    IN  IF largeFiles > 5 \/ totalChanges > 2000 THEN "High" ELSE r1

\* stats.split('\n').filter(Boolean)
StatLines(statsText) == FilterBoolean(Split(statsText, "\n"))

\* analyzeComplexity from line 260 on, given `lines`
analyzeLines(lines) ==
    LET t == StatTotals(lines)
        totalChanges == t.totalAdded + t.totalRemoved
    IN  [complexity   |-> complexityOf(totalChanges, t.largeFiles),
         risk         |-> riskOf(t.totalAdded, t.totalRemoved, totalChanges,
                                 t.largeFiles),
         totalAdded   |-> t.totalAdded,
         totalRemoved |-> t.totalRemoved,
         fileCount    |-> Len(lines)]

-----------------------------------------------------------------------------
(* loadConfig and the command line (lines 60-92) *)

\* a configuration file on disk: absent, unparseable, or holding a JSON object
\* whose keys are those of `keys` (a key that is absent is not merged)
AbsentFile == [state |-> "absent", keys |-> {}, baseBranch |-> "",
               outputFile |-> "", excludePatterns |-> <<>>]
MalformedFile == [state |-> "malformed", keys |-> {}, baseBranch |-> "",
                  outputFile |-> "", excludePatterns |-> <<>>]

\* the example of README.md lines 88-98
ReadmeConfigFile ==
    [state |-> "valid",
     keys |-> {"baseBranch", "outputFile", "excludePatterns"},
     baseBranch |-> "main",
     outputFile |-> "PR_SUMMARY.md",
     excludePatterns |->
        << SourceString(TRUE, ".vscode/", FALSE),
           SourceString(TRUE, ".idea/", FALSE),
           SourceString(TRUE, "node_modules/", FALSE),
           SourceString(TRUE, ".env", FALSE) >>]

\* a configuration that sets only the branch and the output path
DevelopConfigFile ==
    [state |-> "valid",
     keys |-> {"baseBranch", "outputFile"},
     baseBranch |-> "develop",
     outputFile |-> "OUT.md",
     excludePatterns |-> <<>>]

\* { ...defaultConfig, ...userConfig }
MergeConfig(base, user) ==
    [baseBranch |-> IF "baseBranch" \in user.keys
                    THEN user.baseBranch ELSE base.baseBranch,
     outputFile |-> IF "outputFile" \in user.keys
                    THEN user.outputFile ELSE base.outputFile,
     excludePatterns |-> IF "excludePatterns" \in user.keys
                         THEN user.excludePatterns ELSE base.excludePatterns]

\* [configPath, '.prsummaryrc.json', '.prsummaryrc', 'prsummary.config.json']
\* .filter(Boolean)
configFiles(configPath) ==
    SelectSeq(<<configPath, ".prsummaryrc.json", ".prsummaryrc",
                "prsummary.config.json">>,
              LAMBDA f : f # NULL)

ParseWarning(file) == "warn: Could not parse config file " \o file

\* loadConfig with the parse failure ending the search: the catch block
\* returns the defaults
loadConfigLoop_stopAtFailure(candidates, fs, warnings) ==
    LET existing == SelectSeq(candidates, LAMBDA f : fs[f].state # "absent")
    IN  IF existing = <<>>
        THEN [config |-> defaultConfig, warnings |-> warnings]
        ELSE IF fs[Head(existing)].state = "valid"
        THEN [config |-> MergeConfig(defaultConfig, fs[Head(existing)]),
              warnings |-> warnings]
        ELSE [config |-> defaultConfig,
              warnings |-> Append(warnings, ParseWarning(Head(existing)))]

RECURSIVE loadConfigLoop(_, _, _)
\* the for loop of lines 68-78 and the return of line 80
loadConfigLoop(candidates, fs, warnings) ==
    IF candidates = <<>>
    THEN [config |-> defaultConfig, warnings |-> warnings]
    ELSE LET file == Head(candidates)
         IN  IF fs[file].state = "absent"
             THEN loadConfigLoop(Tail(candidates), fs, warnings)
             ELSE IF fs[file].state = "valid"
             THEN [config |-> MergeConfig(defaultConfig, fs[file]),
                   warnings |-> warnings]
             ELSE loadConfigLoop(Tail(candidates), fs,
                                 Append(warnings, ParseWarning(file)))

\* loadConfig(configPath): the configuration and the warnings printed
loadConfig(configPath, fs) == loadConfigLoop(configFiles(configPath), fs, <<>>)

\* args.indexOf(x), 1-based; 0 when absent
IndexOf(arr, x) ==
    IF \E i \in DOMAIN arr : arr[i] = x
    THEN CHOOSE i \in DOMAIN arr : arr[i] = x /\ \A j \in 1..(i - 1) : arr[j] # x
    ELSE 0

\* index !== -1 && args[index + 1] ? args[index + 1] : fallback
OptionValue(args, flag, fallback) ==
    LET i == IndexOf(args, flag)
    IN  IF i # 0 /\ i + 1 <= Len(args) /\ args[i + 1] # ""
        THEN args[i + 1] ELSE fallback

\* args[0] && !args[0].startsWith('--') ? args[0] : fallback
PositionalBase(args, fallback) ==
    IF Len(args) >= 1 /\ args[1] # "" /\ ~StartsWith(args[1], "--")
    THEN args[1] ELSE fallback

-----------------------------------------------------------------------------
(* Renderers: the parts of the documents that depend on the inputs *)

categoryLabels ==
    [k \in Elems(CategoryKeys) |->
        CASE k = "components" -> "Components"
          [] k = "hooks"      -> "Hooks"
          [] k = "utils"      -> "Utilities"
          [] k = "types"      -> "Types"
          [] k = "styles"     -> "Styles"
          [] k = "tests"      -> "Tests"
          [] k = "scripts"    -> "Scripts"
          [] k = "docs"       -> "Documentation"
          [] k = "config"     -> "Configuration"
          [] k = "other"      -> "Other Files"]

\* one rendered item: a category heading, a file entry, or a "+N more" note
Item(kind, text, n) == [kind |-> kind, text |-> text, n |-> n]

ChangesShown == 5
FileListShown == 10

\* files.slice(0, n)
Slice(arr, n) == SubSeq(arr, 1, IF Len(arr) < n THEN Len(arr) ELSE n)

\* SectionOf with the note added from `shown` files on, not from shown + 1
SectionOf_noteAtShown(heading, fileList, shown) ==
    IF Len(fileList) > 0
    THEN <<heading>>
         \o [i \in 1..Len(Slice(fileList, shown)) |-> Item("file", fileList[i], 0)]
         \o (IF Len(fileList) >= shown
             THEN <<Item("more", "", Len(fileList) - shown)>> ELSE <<>>)
    ELSE <<>>

\* the items one category adds to a section that shows `shown` files
SectionOf(heading, fileList, shown) ==
    IF Len(fileList) > 0
    THEN <<heading>>
         \o [i \in 1..Len(Slice(fileList, shown)) |-> Item("file", fileList[i], 0)]
         \o (IF Len(fileList) > shown
             THEN <<Item("more", "", Len(fileList) - shown)>> ELSE <<>>)
    ELSE <<>>

RECURSIVE changesLoop(_, _)
changesLoop(keys, cats) ==
    IF keys = <<>> THEN <<>>
    ELSE SectionOf(Item("heading", categoryLabels[Head(keys)], 0),
                   cats[Head(keys)], ChangesShown)
         \o changesLoop(Tail(keys), cats)

\* generateChangesSection(categories)
generateChangesSection(cats) ==
    IF changesLoop(CategoryKeys, cats) = <<>>
    THEN <<Item("todo", "Describe your changes", 0)>>
    ELSE changesLoop(CategoryKeys, cats)

UpperMap ==
    [c \in {SubSeq(LowerChars, i, i) : i \in 1..Len(LowerChars)} |->
        SubSeq(UpperChars,
               CHOOSE j \in 1..Len(LowerChars) : SubSeq(LowerChars, j, j) = c,
               CHOOSE j \in 1..Len(LowerChars) : SubSeq(LowerChars, j, j) = c)]

\* key.charAt(0).toUpperCase() + key.slice(1)
Capitalize(key) ==
    IF Len(key) = 0 THEN key
    ELSE (IF SubSeq(key, 1, 1) \in DOMAIN UpperMap
          THEN UpperMap[SubSeq(key, 1, 1)] ELSE SubSeq(key, 1, 1))
         \o SubSeq(key, 2, Len(key))

RECURSIVE fileListLoop(_, _)
fileListLoop(keys, cats) ==
    IF keys = <<>> THEN <<>>
    ELSE SectionOf(Item("heading", Capitalize(Head(keys)), Len(cats[Head(keys)])),
                   cats[Head(keys)], FileListShown)
         \o fileListLoop(Tail(keys), cats)

\* generateFileList(categories)
generateFileList(cats) ==
    IF fileListLoop(CategoryKeys, cats) = <<>>
    THEN <<Item("none", "No files modified", 0)>>
    ELSE fileListLoop(CategoryKeys, cats)

\* generateTemplate(prType, commits, files, categories, analysis, suggestions)
generateTemplate(type, commitList, fileList, cats, an, sugg) ==
    [type        |-> type.type,
     emoji       |-> type.emoji,
     bugSections |-> type.type = "Fix",
     changes     |-> generateChangesSection(cats),
     visualFlow  |-> Len(cats["components"]) > 0,
     fileCount   |-> an.fileCount,
     totalAdded  |-> an.totalAdded,
     totalRemoved |-> an.totalRemoved,
     uiChecklist |-> Len(cats["components"]) > 0,
     commits     |-> commitList,
     fileList    |-> generateFileList(cats),
     suggestions |-> sugg,
     complexity  |-> an.complexity,
     risk        |-> an.risk]

\* generateAIPrompt(summaryFile, commits, files), reading baseBranch
generateAIPrompt(summaryFile, commitList, fileList, base) ==
    [summaryFile |-> summaryFile, files |-> fileList, commits |-> commitList,
     baseBranch |-> base]

-----------------------------------------------------------------------------
(* Bounds and input universes *)

MaxFiles == 2       \* paths in a file list given to categorizeFiles / detectPRType
MaxCommits == 2     \* subjects in a commit list given to detectPRType
MaxStatLines == 6   \* lines of numstat output given to analyzeComplexity

\* all sequences over S of length at most n
SeqsUpTo(S, n) == UNION {[1..k -> S] : k \in 0..n}

\* those without a repeated element
DistinctSeqsUpTo(S, n) ==
    {q \in SeqsUpTo(S, n) : \A i, j \in DOMAIN q : i # j => q[i] # q[j]}

PathUniverse ==
    { "src/components/Button.tsx", "src/components/Button.test.tsx",
      "src/hooks/useAuth.ts", "src/utils/date.ts", "src/types/api.ts",
      "src/app.css", "src/app.test.ts", "scripts/build.js", "README.md",
      "package.json", "src/index.ts", "lib/node_modules/README.md",
      "node_modules/x.js", "debug.log", ".vscode/settings.json", "yarn.lock",
      "src/hooks/theme.css", "scripts/run.test.js", "scripts/notes.md",
      "scripts/ci.yml" }

\* exclusion rule sets of RegExp objects: the built-in list, none, and a
\* custom list with unanchored and end-anchored patterns
RuleSets ==
    { defaultExcludePatterns,
      <<>>,
      << RegExp(FALSE, "hooks/", FALSE), RegExp(FALSE, ".md", TRUE) >> }

CommitUniverse ==
    { "fix: resolve redirect loop", "feat: add login", "Refactor api",
      "docs: guide", "test coverage", "perf: optimize", "chore: bump deps" }

DetectPaths == { "README.md", "src/app.test.ts", "spec/helper.js", "src/index.ts" }

StatLineUniverse ==
    { "50\t10\ta.ts", "50\t160\tb.ts", "0\t300\tc.ts", "300\t300\td.ts" }

blankConfig == [baseBranch |-> "", outputFile |-> "", excludePatterns |-> <<>>]
blankArgv == <<>>
blankRepo ==
    [isRepo |-> TRUE, branch |-> "", commitLog |-> "", fileLog |-> "", numstat |-> ""]
blankAnalysis ==
    [complexity |-> "", risk |-> "", totalAdded |-> 0, totalRemoved |-> 0,
     fileCount |-> 0]
blankTemplate ==
    [type |-> "", emoji |-> "", bugSections |-> FALSE, changes |-> <<>>,
     visualFlow |-> FALSE, fileCount |-> 0, totalAdded |-> 0, totalRemoved |-> 0,
     uiChecklist |-> FALSE, commits |-> <<>>, fileList |-> <<>>,
     suggestions |-> <<>>, complexity |-> "", risk |-> ""]
blankPrompt == [summaryFile |-> "", files |-> <<>>, commits |-> <<>>, baseBranch |-> ""]

-----------------------------------------------------------------------------
(* categorizeFiles applied to every bounded file list and rule set *)

InitCategorize ==
    /\ pc = "categorizeFiles:call"
    /\ files \in DistinctSeqsUpTo(PathUniverse, MaxFiles)
    /\ config \in {[defaultConfig EXCEPT !.excludePatterns = rs] : rs \in RuleSets}
    /\ argv = blankArgv /\ fsConfig = <<>> /\ repo = blankRepo
    /\ baseBranch = "" /\ outputFile = "" /\ currentBranch = ""
    /\ commits = <<>> /\ allFiles = <<>> /\ prType = PRType("", "")
    /\ categories = emptyCategories /\ stats = <<>> /\ analysis = blankAnalysis
    /\ suggestions = <<>> /\ template = blankTemplate /\ aiPrompt = blankPrompt
    /\ disk = <<>> /\ clipboard = <<>> /\ console = <<>> /\ events = <<>>
    /\ gitFailed = {} /\ exitCode = <<>>

CallCategorizeFiles ==
    /\ pc = "categorizeFiles:call"
    /\ ~FilterThrows(config.excludePatterns, files)
    /\ categories' = categorizeFiles(files, config)
    /\ pc' = "categorizeFiles:return"
    /\ UNCHANGED <<argv, fsConfig, repo, config, baseBranch, outputFile,
                   currentBranch, commits, allFiles, files, prType, stats,
                   analysis, suggestions, template, aiPrompt, disk, clipboard,
                   console, events, gitFailed, exitCode>>

SpecCategorize == InitCategorize /\ [][CallCategorizeFiles]_vars

\* number of positions of bucket `key` holding path f
CountIn(cats, key, f) == Cardinality({i \in DOMAIN cats[key] : cats[key][i] = f})

RECURSIVE SumOver(_, _, _)
SumOver(cats, keys, f) ==
    IF keys = <<>> THEN 0
    ELSE CountIn(cats, Head(keys), f) + SumOver(cats, Tail(keys), f)

\* number of positions, over all ten buckets, holding path f
Occurrences(cats, f) == SumOver(cats, CategoryKeys, f)

\* f matches some pattern of the rule set
MatchesExclusion(patterns, f) ==
    \E i \in DOMAIN patterns : RegExpTest(patterns[i], f)

\* C1: after categorizeFiles, every input path that matches no exclusion
\* pattern is in exactly one of the ten buckets, exactly once, and no bucket
\* holds an excluded path or a path that was not in the input.
C1_Partition ==
    pc = "categorizeFiles:return" =>
        /\ DOMAIN categories = Elems(CategoryKeys)
        /\ \A f \in PathUniverse :
              Occurrences(categories, f) =
                  IF f \in Elems(files) /\ ~MatchesExclusion(config.excludePatterns, f)
                  THEN 1 ELSE 0
        /\ \A k \in DOMAIN categories : Elems(categories[k]) \subseteq Elems(files)

C1_Witness ==
    /\ pc = "categorizeFiles:return"
    /\ files = <<"src/components/Button.test.tsx", "debug.log">>
    /\ config = defaultConfig
    /\ categories["components"] = <<"src/components/Button.test.tsx">>

-----------------------------------------------------------------------------
(* detectPRType applied to every bounded commit list and file list *)

InitDetect ==
    /\ pc = "detectPRType:call"
    /\ commits \in SeqsUpTo(CommitUniverse, MaxCommits)
    /\ files \in DistinctSeqsUpTo(DetectPaths, MaxFiles)
    /\ config = defaultConfig
    /\ argv = blankArgv /\ fsConfig = <<>> /\ repo = blankRepo
    /\ baseBranch = "" /\ outputFile = "" /\ currentBranch = ""
    /\ allFiles = <<>> /\ prType = PRType("", "")
    /\ categories = emptyCategories /\ stats = <<>> /\ analysis = blankAnalysis
    /\ suggestions = <<>> /\ template = blankTemplate /\ aiPrompt = blankPrompt
    /\ disk = <<>> /\ clipboard = <<>> /\ console = <<>> /\ events = <<>>
    /\ gitFailed = {} /\ exitCode = <<>>

CallDetectPRType ==
    /\ pc = "detectPRType:call"
    /\ prType' = detectPRType(commits, files)
    /\ pc' = "detectPRType:return"
    /\ UNCHANGED <<argv, fsConfig, repo, config, baseBranch, outputFile,
                   currentBranch, commits, allFiles, files, categories, stats,
                   analysis, suggestions, template, aiPrompt, disk, clipboard,
                   console, events, gitFailed, exitCode>>

SpecDetect == InitDetect /\ [][CallDetectPRType]_vars

\* some keyword of the set occurs in the text
AnyKeyword(text, keywords) == \E w \in keywords : Includes(text, w)

\* the six rules of the claim, in its order, as <<label, condition>>, over
\* the lower-cased commit text and file text
ClaimedRules(commitList, fileList) ==
    LET ct == ToLowerCase(Join(commitList, " "))
        ft == ToLowerCase(Join(fileList, " "))
    IN  << <<"Fix", AnyKeyword(ct, {"fix", "bug", "resolve"})>>,
           <<"Feature", AnyKeyword(ct, {"feat", "feature", "add"})>>,
           <<"Refactor", AnyKeyword(ct, {"refactor", "restructure"})>>,
           <<"Docs", AnyKeyword(ct, {"docs", "documentation"})
                     \/ AnyKeyword(ft, {".md"})>>,
           <<"Test", AnyKeyword(ct, {"test"}) \/ AnyKeyword(ft, {"test", "spec"})>>,
           <<"Performance", AnyKeyword(ct, {"perf", "performance", "optimize"})>> >>

\* C3: detectPRType returns one label of the closed set: the label of the
\* first rule, in the order Fix, Feature, Refactor, Docs, Test, Performance,
\* whose condition holds; Chore exactly when none holds; and a commit list
\* with both a Fix keyword and a Feature keyword yields Fix.
C3_FirstMatchingRule ==
    pc = "detectPRType:return" =>
        LET rules == ClaimedRules(commits, files)
            hits == {i \in DOMAIN rules : rules[i][2]}
        IN  /\ prType \in PRTypes
            /\ hits # {} =>
                  prType.type = rules[CHOOSE i \in hits : \A j \in hits : i <= j][1]
            /\ (prType.type = "Chore") <=> (hits = {})
            /\ (rules[1][2] /\ rules[2][2]) => prType.type = "Fix"

C3_Witness ==
    /\ pc = "detectPRType:return"
    /\ commits = <<"feat: add login", "fix: resolve redirect loop">>
    /\ prType.type = "Fix"

-----------------------------------------------------------------------------
(* analyzeComplexity applied to every bounded list of numstat lines, and   *)
(* applied again after one file's added or removed count has been raised   *)

InitAnalyze ==
    /\ pc = "analyzeComplexity:call"
    /\ stats \in SeqsUpTo(StatLineUniverse, MaxStatLines)
    /\ config = defaultConfig
    /\ argv = blankArgv /\ fsConfig = <<>> /\ repo = blankRepo
    /\ baseBranch = "" /\ outputFile = "" /\ currentBranch = ""
    /\ commits = <<>> /\ allFiles = <<>> /\ files = <<>> /\ prType = PRType("", "")
    /\ categories = emptyCategories /\ analysis = blankAnalysis
    /\ suggestions = <<>> /\ template = blankTemplate /\ aiPrompt = blankPrompt
    /\ disk = <<>> /\ clipboard = <<>> /\ console = <<>> /\ events = <<>>
    /\ gitFailed = {} /\ exitCode = <<>>

CallAnalyzeLines ==
    /\ pc = "analyzeComplexity:call"
    /\ analysis' = analyzeLines(stats)
    /\ pc' = "analyzeComplexity:return"
    /\ UNCHANGED <<argv, fsConfig, repo, config, baseBranch, outputFile,
                   currentBranch, commits, allFiles, files, prType, categories,
                   stats, suggestions, template, aiPrompt, disk, clipboard,
                   console, events, gitFailed, exitCode>>

\* the (added, removed) pair each line of the universe stands for
StatPairs ==
    [line \in StatLineUniverse |->
        CASE line = "50\t10\ta.ts"   -> <<50, 10>>
          [] line = "50\t160\tb.ts"  -> <<50, 160>>
          [] line = "0\t300\tc.ts"   -> <<0, 300>>
          [] line = "300\t300\td.ts" -> <<300, 300>>]

\* pairs <<old, new>> of lines: new is old with its added count raised and
\* its removed count unchanged
AddedRaised ==
    {p \in StatLineUniverse \X StatLineUniverse :
        /\ StatPairs[p[2]][1] > StatPairs[p[1]][1]
        /\ StatPairs[p[2]][2] = StatPairs[p[1]][2]}

\* pairs <<old, new>> of lines: new is old with its removed count raised and
\* its added count unchanged
RemovedRaised ==
    {p \in StatLineUniverse \X StatLineUniverse :
        /\ StatPairs[p[2]][2] > StatPairs[p[1]][2]
        /\ StatPairs[p[2]][1] = StatPairs[p[1]][1]}

\* the same diff with one file's added or removed count raised, analysed again
RaiseOneCount ==
    /\ pc \in {"analyzeComplexity:return", "analyzeComplexity:raised"}
    /\ \E i \in DOMAIN stats, new \in StatLineUniverse :
          /\ <<stats[i], new>> \in AddedRaised \cup RemovedRaised
          /\ stats' = [stats EXCEPT ![i] = new]
    /\ analysis' = analyzeLines(stats')
    /\ pc' = "analyzeComplexity:raised"
    /\ UNCHANGED <<argv, fsConfig, repo, config, baseBranch, outputFile,
                   currentBranch, commits, allFiles, files, prType, categories,
                   suggestions, template, aiPrompt, disk, clipboard,
                   console, events, gitFailed, exitCode>>

NextAnalyze == CallAnalyzeLines \/ RaiseOneCount

SpecAnalyze == InitAnalyze /\ [][NextAnalyze]_vars

RECURSIVE SumField(_, _)
SumField(lines, k) ==
    IF lines = <<>> THEN 0
    ELSE StatPairs[Head(lines)][k] + SumField(Tail(lines), k)

\* C4: complexity is High if totalChanges > 1000 or largeFiles > 3, else
\* Medium if totalChanges > 300 or largeFiles > 1, else Low; risk is High if
\* largeFiles > 5 or totalChanges > 2000, else Medium if largeFiles > 2 or
\* totalRemoved > 2*totalAdded, else Low; one file 50/10 gives Low/Low and
\* four files 300/300 give High/High.
C4_Tiers ==
    pc \in {"analyzeComplexity:return", "analyzeComplexity:raised"} =>
        LET totalAdded == SumField(stats, 1)
            totalRemoved == SumField(stats, 2)
            totalChanges == totalAdded + totalRemoved
            largeFiles ==
                Cardinality({i \in DOMAIN stats :
                    StatPairs[stats[i]][1] + StatPairs[stats[i]][2] > 200})
        IN  /\ analysis.totalAdded = totalAdded
            /\ analysis.totalRemoved = totalRemoved
            /\ analysis.complexity =
                  IF totalChanges > 1000 \/ largeFiles > 3 THEN "High"
                  ELSE IF totalChanges > 300 \/ largeFiles > 1 THEN "Medium"
                  ELSE "Low"
            /\ analysis.risk =
                  IF largeFiles > 5 \/ totalChanges > 2000 THEN "High"
                  ELSE IF largeFiles > 2 \/ totalRemoved > 2 * totalAdded
                  THEN "Medium"
                  ELSE "Low"
            /\ stats = <<"50\t10\ta.ts">> =>
                  analysis.complexity = "Low" /\ analysis.risk = "Low"
            /\ stats = <<"300\t300\td.ts", "300\t300\td.ts", "300\t300\td.ts",
                         "300\t300\td.ts">> =>
                  analysis.complexity = "High" /\ analysis.risk = "High"

C4_Witness ==
    /\ pc = "analyzeComplexity:return"
    /\ stats = <<"300\t300\td.ts", "300\t300\td.ts", "300\t300\td.ts",
                 "300\t300\td.ts">>
    /\ analysis.complexity = "High" /\ analysis.risk = "High"
    /\ analysis.totalAdded + analysis.totalRemoved = 2400

Tier(t) == CASE t = "Low" -> 1 [] t = "Medium" -> 2 [] t = "High" -> 3

\* exactly one line differs between the two lists, by a pair of relation R
OneLineChanged(old, new, R) ==
    /\ Len(old) = Len(new)
    /\ \E i \in DOMAIN old :
          /\ <<old[i], new[i]>> \in R
          /\ \A j \in DOMAIN old : j # i => old[j] = new[j]

\* C5 as stated: raising any single file's added or removed count never
\* lowers the complexity tier and never lowers the risk tier.
C5_Monotone ==
    [][pc' = "analyzeComplexity:raised" =>
          /\ Tier(analysis'.complexity) >= Tier(analysis.complexity)
          /\ Tier(analysis'.risk) >= Tier(analysis.risk)]_vars

\* C5 amended: raising a single file's added or removed count never lowers
\* the complexity tier; raising a removed count never lowers the risk tier;
\* raising an added count never lowers a risk tier of High (it can lower
\* Medium to Low, by undoing totalRemoved > 2*totalAdded).
C5_MonotoneAmended ==
    [][pc' = "analyzeComplexity:raised" =>
          /\ Tier(analysis'.complexity) >= Tier(analysis.complexity)
          /\ OneLineChanged(stats, stats', RemovedRaised) =>
                Tier(analysis'.risk) >= Tier(analysis.risk)
          /\ analysis.risk = "High" => analysis'.risk = "High"]_vars

C5_Witness ==
    /\ pc = "analyzeComplexity:raised"
    /\ stats = <<"300\t300\td.ts">>
    /\ analysis.risk = "Low"
    /\ analysis.complexity = "Medium"

-----------------------------------------------------------------------------
(* generateSuggestions applied to every emptiness pattern of the ten       *)
(* buckets and every PR type                                               *)

\* one path per category, in the order of CategoryKeys
RepresentativeFiles ==
    << "src/components/Button.tsx", "src/hooks/useAuth.ts", "src/utils/date.ts",
       "src/types/api.ts", "src/app.css", "src/app.test.ts", "README.md",
       "package.json", "scripts/build.js", "src/index.ts" >>

\* the sub-sequences of q
SubSequences(q) ==
    {SelectSeq(q, LAMBDA x : x \in keep) : keep \in SUBSET Elems(q)}

InitSuggest ==
    /\ pc = "generateSuggestions:call"
    /\ files \in SubSequences(RepresentativeFiles)
    /\ categories = categorizeFiles(files, defaultConfig)
    /\ prType \in PRTypes
    /\ config = defaultConfig
    /\ argv = blankArgv /\ fsConfig = <<>> /\ repo = blankRepo
    /\ baseBranch = "" /\ outputFile = "" /\ currentBranch = ""
    /\ commits = <<>> /\ allFiles = <<>> /\ stats = <<>>
    /\ analysis = blankAnalysis
    /\ suggestions = <<>> /\ template = blankTemplate /\ aiPrompt = blankPrompt
    /\ disk = <<>> /\ clipboard = <<>> /\ console = <<>> /\ events = <<>>
    /\ gitFailed = {} /\ exitCode = <<>>

CallGenerateSuggestions ==
    /\ pc = "generateSuggestions:call"
    /\ suggestions' = generateSuggestions(categories, prType)
    /\ pc' = "generateSuggestions:return"
    /\ UNCHANGED <<argv, fsConfig, repo, config, baseBranch, outputFile,
                   currentBranch, commits, allFiles, files, prType, categories,
                   stats, analysis, template, aiPrompt, disk, clipboard,
                   console, events, gitFailed, exitCode>>

SpecSuggest == InitSuggest /\ [][CallGenerateSuggestions]_vars

\* the messages of a rule when its condition holds
RuleMessages(cond, msgs) == IF cond THEN msgs ELSE <<>>

\* C6: the suggestions are the messages of the rules whose condition holds,
\* in the order components (2), hooks (1), utils (1), no-tests (1), types (1),
\* styles (2); the no-tests warning is there exactly when tests is empty and
\* the type is not Docs; a Fix touching only src/hooks/useAuth.ts gets the
\* hooks message followed by the no-tests warning.
C6_Suggestions ==
    pc = "generateSuggestions:return" =>
        /\ suggestions =
              RuleMessages(categories["components"] # <<>>,
                           <<MsgScreenshots, MsgAccessibility>>)
              \o RuleMessages(categories["hooks"] # <<>>, <<MsgHooks>>)
              \o RuleMessages(categories["utils"] # <<>>, <<MsgUtils>>)
              \o RuleMessages(categories["tests"] = <<>> /\ prType.type # "Docs",
                              <<MsgNoTests>>)
              \o RuleMessages(categories["types"] # <<>>, <<MsgTypes>>)
              \o RuleMessages(categories["styles"] # <<>>,
                              <<MsgResponsive, MsgDarkMode>>)
        /\ (MsgNoTests \in Elems(suggestions))
              <=> (categories["tests"] = <<>> /\ prType.type # "Docs")
        /\ ( /\ files = <<"src/hooks/useAuth.ts">>
             /\ prType = detectPRType(<<"fix: resolve redirect loop">>, files) )
              => suggestions = <<MsgHooks, MsgNoTests>>

C6_Witness ==
    /\ pc = "generateSuggestions:return"
    /\ files = <<"src/hooks/useAuth.ts">>
    /\ prType.type = "Fix"
    /\ categories["hooks"] = <<"src/hooks/useAuth.ts">>
    /\ suggestions = <<MsgHooks, MsgNoTests>>

-----------------------------------------------------------------------------
(* The program: module-level configuration, then main() *)

\* git(command): the trimmed output, or '' when the command fails
git(output, ok) == IF ok THEN Trim(output) ELSE ""

ArgvUniverse ==
    { <<>>,
      <<"develop">>,
      <<"--config", "custom.json">>,
      <<"develop", "--output", "MY_PR.md">>,
      <<"--output", "MY_PR.md", "--config", "custom.json">>,
      <<"--config">> }

CandidateNames ==
    {"custom.json", ".prsummaryrc.json", ".prsummaryrc", "prsummary.config.json"}

FileStates == {AbsentFile, MalformedFile, ReadmeConfigFile, DevelopConfigFile}

NoConfigFiles == [f \in CandidateNames |-> AbsentFile]

\* command line and configuration files of the runs of main()
RunConfigs ==
    { [argv |-> <<>>, fs |-> NoConfigFiles],
      [argv |-> <<>>,
       fs |-> [NoConfigFiles EXCEPT ![".prsummaryrc.json"] = ReadmeConfigFile]],
      [argv |-> <<>>,
       fs |-> [NoConfigFiles EXCEPT ![".prsummaryrc"] = MalformedFile]],
      [argv |-> <<"--output", "MY_PR.md", "--config", "custom.json">>,
       fs |-> [NoConfigFiles EXCEPT !["custom.json"] = DevelopConfigFile]] }

NotARepo ==
    [isRepo |-> FALSE, branch |-> "", commitLog |-> "", fileLog |-> "",
     numstat |-> ""]

CommitLogs ==
    { "", "fix: resolve redirect loop\n", "docs: guide\nchore: bump deps" }

FileLogs ==
    { "",
      "node_modules/x.js\nREADME.md",
      "src/hooks/useAuth.ts\n",
      "src/hooks/useAuth.ts\n\nsrc/app.test.ts\nsrc/hooks/useAuth.ts",
      ".vscode/settings.json\nsrc/index.ts\ndebug.log" }

NumstatOutputs ==
    { "",
      "50\t10\tsrc/hooks/useAuth.ts",
      "300\t300\ta.ts\n300\t300\tb.ts\n300\t300\tc.ts\n300\t300\td.ts",
      "5\t1\tnode_modules/x.js\n2\t0\tREADME.md\n-\t-\tlogo.png" }

Repos ==
    {NotARepo} \cup
    { [isRepo |-> TRUE, branch |-> "feature/login\n", commitLog |-> c,
       fileLog |-> f, numstat |-> n] :
        c \in CommitLogs, f \in FileLogs, n \in NumstatOutputs }

Init ==
    /\ pc = "start"
    /\ \E rc \in RunConfigs : argv = rc.argv /\ fsConfig = rc.fs
    /\ repo \in Repos
    /\ config = blankConfig
    /\ baseBranch = "" /\ outputFile = "" /\ currentBranch = ""
    /\ commits = <<>> /\ allFiles = <<>> /\ files = <<>> /\ prType = PRType("", "")
    /\ categories = emptyCategories /\ stats = <<>> /\ analysis = blankAnalysis
    /\ suggestions = <<>> /\ template = blankTemplate /\ aiPrompt = blankPrompt
    /\ disk = <<>> /\ clipboard = <<>> /\ console = <<>> /\ events = <<>>
    /\ gitFailed = {} /\ exitCode = <<>>

\* lines 84-92: the command line is read and the configuration loaded
LoadConfig ==
    /\ pc = "start"
    /\ LET configPath == OptionValue(argv, "--config", NULL)
           loaded == loadConfig(configPath, fsConfig)
       IN  /\ config' = loaded.config
           /\ console' = console \o loaded.warnings
           /\ baseBranch' = PositionalBase(argv, loaded.config.baseBranch)
           /\ outputFile' = OptionValue(argv, "--output", loaded.config.outputFile)
    /\ pc' = "main"
    /\ UNCHANGED <<argv, fsConfig, repo, currentBranch, commits, allFiles, files,
                   prType, categories, stats, analysis, suggestions, template,
                   aiPrompt, disk, clipboard, events, gitFailed, exitCode>>

\* line 294: checkGitRepo()
CheckGitRepo ==
    /\ pc = "main"
    /\ events' = Append(events, "git rev-parse --git-dir")
    /\ IF repo.isRepo
       THEN /\ pc' = "getBranch"
            /\ UNCHANGED <<console, exitCode>>
       ELSE /\ console' = Append(console, "error: Not a git repository")
            /\ exitCode' = <<1>>
            /\ pc' = "exited"
    /\ UNCHANGED <<argv, fsConfig, repo, config, baseBranch, outputFile,
                   currentBranch, commits, allFiles, files, prType, categories,
                   stats, analysis, suggestions, template, aiPrompt, disk,
                   clipboard, gitFailed>>

\* line 297
GetCurrentBranch ==
    /\ pc = "getBranch"
    /\ \E ok \in BOOLEAN :
          /\ currentBranch' = git(repo.branch, ok)
          /\ gitFailed' = IF ok THEN gitFailed ELSE gitFailed \cup {"branch"}
    /\ events' = Append(events, "git rev-parse --abbrev-ref HEAD")
    /\ pc' = "getCommits"
    /\ UNCHANGED <<argv, fsConfig, repo, config, baseBranch, outputFile, commits,
                   allFiles, files, prType, categories, stats, analysis,
                   suggestions, template, aiPrompt, disk, clipboard, console,
                   exitCode>>

\* line 300
GetCommits ==
    /\ pc = "getCommits"
    /\ \E ok \in BOOLEAN :
          /\ commits' = FilterBoolean(Split(git(repo.commitLog, ok), "\n"))
          /\ gitFailed' = IF ok THEN gitFailed ELSE gitFailed \cup {"commits"}
    /\ events' = Append(events, "git log --pretty")
    /\ pc' = "getFiles"
    /\ UNCHANGED <<argv, fsConfig, repo, config, baseBranch, outputFile,
                   currentBranch, allFiles, files, prType, categories, stats,
                   analysis, suggestions, template, aiPrompt, disk, clipboard,
                   console, exitCode>>

\* lines 303-306
GetAllFiles ==
    /\ pc = "getFiles"
    /\ \E ok \in BOOLEAN :
          /\ allFiles' = Dedupe(FilterBoolean(Split(git(repo.fileLog, ok), "\n")))
          /\ gitFailed' = IF ok THEN gitFailed ELSE gitFailed \cup {"files"}
    /\ events' = Append(events, "git log --name-only")
    /\ pc' = "filterFiles"
    /\ UNCHANGED <<argv, fsConfig, repo, config, baseBranch, outputFile,
                   currentBranch, commits, files, prType, categories, stats,
                   analysis, suggestions, template, aiPrompt, disk, clipboard,
                   console, exitCode>>

\* line 308; a TypeError thrown by pattern.test is not caught: node prints it
\* and exits with code 1
FilterFiles ==
    /\ pc = "filterFiles"
    /\ IF FilterThrows(config.excludePatterns, allFiles)
       THEN /\ console' = Append(console, "uncaught: TypeError: pattern.test is not a function")
            /\ exitCode' = <<1>>
            /\ pc' = "exited"
            /\ UNCHANGED files
       ELSE /\ files' = FilterExcluded(config.excludePatterns, allFiles)
            /\ pc' = "detect"
            /\ UNCHANGED <<console, exitCode>>
    /\ UNCHANGED <<argv, fsConfig, repo, config, baseBranch, outputFile,
                   currentBranch, commits, allFiles, prType, categories, stats,
                   analysis, suggestions, template, aiPrompt, disk, clipboard,
                   events, gitFailed>>

\* line 311
DetectPRType ==
    /\ pc = "detect"
    /\ prType' = detectPRType(commits, files)
    /\ events' = Append(events, "detectPRType")
    /\ pc' = "categorize"
    /\ UNCHANGED <<argv, fsConfig, repo, config, baseBranch, outputFile,
                   currentBranch, commits, allFiles, files, categories, stats,
                   analysis, suggestions, template, aiPrompt, disk, clipboard,
                   console, gitFailed, exitCode>>

\* line 314
CategorizeFiles ==
    /\ pc = "categorize"
    /\ IF FilterThrows(config.excludePatterns, files)
       THEN /\ console' = Append(console, "uncaught: TypeError: pattern.test is not a function")
            /\ exitCode' = <<1>>
            /\ pc' = "exited"
            /\ UNCHANGED categories
       ELSE /\ categories' = categorizeFiles(files, config)
            /\ pc' = "analyze"
            /\ UNCHANGED <<console, exitCode>>
    /\ events' = Append(events, "categorizeFiles")
    /\ UNCHANGED <<argv, fsConfig, repo, config, baseBranch, outputFile,
                   currentBranch, commits, allFiles, files, prType, stats,
                   analysis, suggestions, template, aiPrompt, disk, clipboard,
                   gitFailed>>

\* line 317: analyzeComplexity(baseBranch), which runs the numstat query
AnalyzeComplexity ==
    /\ pc = "analyze"
    /\ \E ok \in BOOLEAN :
          /\ stats' = StatLines(git(repo.numstat, ok))
          /\ gitFailed' = IF ok THEN gitFailed ELSE gitFailed \cup {"numstat"}
    /\ analysis' = analyzeLines(stats')
    /\ events' = Append(events, "git diff --numstat")
    /\ pc' = "suggest"
    /\ UNCHANGED <<argv, fsConfig, repo, config, baseBranch, outputFile,
                   currentBranch, commits, allFiles, files, prType, categories,
                   suggestions, template, aiPrompt, disk, clipboard, console,
                   exitCode>>

\* line 320
GenerateSuggestions ==
    /\ pc = "suggest"
    /\ suggestions' = generateSuggestions(categories, prType)
    /\ pc' = "render"
    /\ UNCHANGED <<argv, fsConfig, repo, config, baseBranch, outputFile,
                   currentBranch, commits, allFiles, files, prType, categories,
                   stats, analysis, template, aiPrompt, disk, clipboard, console,
                   events, gitFailed, exitCode>>

\* line 323
GenerateTemplate ==
    /\ pc = "render"
    /\ template' = generateTemplate(prType, commits, files, categories, analysis,
                                    suggestions)
    /\ events' = Append(events, "generateTemplate")
    /\ pc' = "write"
    /\ UNCHANGED <<argv, fsConfig, repo, config, baseBranch, outputFile,
                   currentBranch, commits, allFiles, files, prType, categories,
                   stats, analysis, suggestions, aiPrompt, disk, clipboard,
                   console, gitFailed, exitCode>>

\* WriteFile started as soon as the analysis is done, without waiting for
\* generateTemplate
WriteFile_beforeRender ==
    /\ pc = "render"
    /\ disk' = Append(disk, [path |-> outputFile, content |-> template])
    /\ events' = Append(events, "writeFileSync")
    /\ pc' = "prompt"
    /\ UNCHANGED <<argv, fsConfig, repo, config, baseBranch, outputFile,
                   currentBranch, commits, allFiles, files, prType, categories,
                   stats, analysis, suggestions, template, aiPrompt, clipboard,
                   console, gitFailed, exitCode>>

\* lines 326-332: fs.writeFileSync(outputFile, template) and the report
WriteFile ==
    /\ pc = "write"
    /\ disk' = Append(disk, [path |-> outputFile, content |-> template])
    /\ events' = Append(events, "writeFileSync")
    /\ pc' = "prompt"
    /\ UNCHANGED <<argv, fsConfig, repo, config, baseBranch, outputFile,
                   currentBranch, commits, allFiles, files, prType, categories,
                   stats, analysis, suggestions, template, aiPrompt, clipboard,
                   console, gitFailed, exitCode>>

\* line 335
GenerateAIPrompt ==
    /\ pc = "prompt"
    /\ aiPrompt' = generateAIPrompt(outputFile, commits, files, baseBranch)
    /\ pc' = "copy"
    /\ UNCHANGED <<argv, fsConfig, repo, config, baseBranch, outputFile,
                   currentBranch, commits, allFiles, files, prType, categories,
                   stats, analysis, suggestions, template, disk, clipboard,
                   console, events, gitFailed, exitCode>>

\* lines 338-356: the copy command succeeds or fails; a failure is reported
CopyToClipboard ==
    /\ pc = "copy"
    /\ \E ok \in BOOLEAN :
          IF ok
          THEN /\ clipboard' = <<aiPrompt>>
               /\ console' = Append(console, "AI prompt copied to clipboard!")
          ELSE /\ UNCHANGED clipboard
               /\ console' = Append(console, "warn: Could not copy to clipboard")
    /\ events' = Append(events, "copy")
    /\ pc' = "checklist"
    /\ UNCHANGED <<argv, fsConfig, repo, config, baseBranch, outputFile,
                   currentBranch, commits, allFiles, files, prType, categories,
                   stats, analysis, suggestions, template, aiPrompt, disk,
                   gitFailed, exitCode>>

\* lines 358-364 and 767: the checklist is printed, main returns, node exits 0
Exit ==
    /\ pc = "checklist"
    /\ exitCode' = <<0>>
    /\ pc' = "exited"
    /\ UNCHANGED <<argv, fsConfig, repo, config, baseBranch, outputFile,
                   currentBranch, commits, allFiles, files, prType, categories,
                   stats, analysis, suggestions, template, aiPrompt, disk,
                   clipboard, console, events, gitFailed>>

Next ==
    \/ LoadConfig
    \/ CheckGitRepo
    \/ GetCurrentBranch
    \/ GetCommits
    \/ GetAllFiles
    \/ FilterFiles
    \/ DetectPRType
    \/ CategorizeFiles
    \/ AnalyzeComplexity
    \/ GenerateSuggestions
    \/ GenerateTemplate
    \/ WriteFile
    \/ GenerateAIPrompt
    \/ CopyToClipboard
    \/ Exit

Spec == Init /\ [][Next]_vars

-----------------------------------------------------------------------------
(* loadConfig applied to every command line of ArgvUniverse and every        *)
(* combination of candidate files                                          *)

InitConfig ==
    /\ pc = "start"
    /\ argv \in ArgvUniverse
    /\ fsConfig \in [CandidateNames -> FileStates]
    /\ repo = blankRepo
    /\ config = blankConfig
    /\ baseBranch = "" /\ outputFile = "" /\ currentBranch = ""
    /\ commits = <<>> /\ allFiles = <<>> /\ files = <<>> /\ prType = PRType("", "")
    /\ categories = emptyCategories /\ stats = <<>> /\ analysis = blankAnalysis
    /\ suggestions = <<>> /\ template = blankTemplate /\ aiPrompt = blankPrompt
    /\ disk = <<>> /\ clipboard = <<>> /\ console = <<>> /\ events = <<>>
    /\ gitFailed = {} /\ exitCode = <<>>

SpecConfig == InitConfig /\ [][LoadConfig]_vars

-----------------------------------------------------------------------------
(* Properties of a run *)

\* the pattern, read as a regular expression, matches the path
PatternMatches(pattern, f) == RegExpTest(pattern, f)

\* the path matches some configured exclusion pattern
MatchesConfigured(f) ==
    \E i \in DOMAIN config.excludePatterns :
        PatternMatches(config.excludePatterns[i], f)

\* the paths of the file entries of a rendered section
RenderedFiles(items) ==
    {items[i].text : i \in {j \in DOMAIN items : items[j].kind = "file"}}

\* the paths held by some bucket
Categorized(cats) == UNION {Elems(cats[k]) : k \in DOMAIN cats}

\* every path the run has put in a bucket, a rendered section, the prompt, the
\* written document or the clipboard
AppearingPaths ==
    Categorized(categories)
    \cup RenderedFiles(template.changes) \cup RenderedFiles(template.fileList)
    \cup Elems(aiPrompt.files)
    \cup UNION {RenderedFiles(disk[i].content.changes)
                \cup RenderedFiles(disk[i].content.fileList) : i \in DOMAIN disk}
    \cup UNION {Elems(clipboard[i].files) : i \in DOMAIN clipboard}

\* C2: a path matching a configured exclusion pattern is in no bucket, in
\* neither rendered file section and not in the AI prompt's file list; with
\* the default exclusions, the changed files node_modules/x.js and README.md
\* leave only README.md, in docs.
C2_ExcludedNeverAppears ==
    /\ \A f \in AppearingPaths : ~MatchesConfigured(f)
    /\ ( /\ pc = "exited" /\ exitCode = <<0>>
         /\ config.excludePatterns = defaultExcludePatterns
         /\ allFiles = <<"node_modules/x.js", "README.md">> )
          => /\ files = <<"README.md">>
             /\ categories = [emptyCategories EXCEPT !["docs"] = <<"README.md">>]
             /\ RenderedFiles(template.changes) = {"README.md"}
             /\ RenderedFiles(template.fileList) = {"README.md"}
             /\ aiPrompt.files = <<"README.md">>

C2_Witness ==
    /\ pc = "exited" /\ exitCode = <<0>>
    /\ config.excludePatterns = defaultExcludePatterns
    /\ allFiles = <<"node_modules/x.js", "README.md">>
    /\ categories["docs"] = <<"README.md">>
    /\ Len(disk) = 1
    /\ RenderedFiles(disk[1].content.fileList) = {"README.md"}

\* C7: with excludePatterns given as regular-expression source strings in a
\* configuration file, the run completes normally, every changed path matched
\* by a source is excluded from the file list, the buckets and the output,
\* and every other changed path is kept.
C7_SourceStringsExclude ==
    ( /\ pc = "exited"
      /\ repo.isRepo
      /\ config.excludePatterns # <<>>
      /\ \A i \in DOMAIN config.excludePatterns : ~config.excludePatterns[i].isRegExp )
        => /\ exitCode = <<0>>
           /\ Len(disk) = 1
           /\ \A f \in Elems(allFiles) :
                 IF MatchesConfigured(f)
                 THEN f \notin Elems(files) /\ f \notin AppearingPaths
                 ELSE f \in Elems(files) /\ f \in Categorized(categories)

\* C8: a run exits with code 1 and an error message when it is not inside a
\* git working tree, and every other run exits with code 0.
C8_ExitCodes ==
    pc = "exited" =>
        IF repo.isRepo
        THEN exitCode = <<0>>
        ELSE exitCode = <<1>> /\ "error: Not a git repository" \in Elems(console)

\* C9: when a git query fails its result is empty and the run still reaches
\* its end with the document written; a failed commit or file query gives no
\* commits or files, a failed numstat query gives totals 0, fileCount 0,
\* complexity Low and risk Low.
C9_GitFailureDegrades ==
    (pc = "exited" /\ repo.isRepo /\ gitFailed # {}) =>
        /\ exitCode = <<0>>
        /\ Len(disk) = 1
        /\ "branch" \in gitFailed => currentBranch = ""
        /\ "commits" \in gitFailed =>
              commits = <<>> /\ disk[1].content.commits = <<>>
        /\ "files" \in gitFailed =>
              allFiles = <<>> /\ files = <<>> /\ Categorized(categories) = {}
        /\ "numstat" \in gitFailed =>
              analysis = [complexity |-> "Low", risk |-> "Low", totalAdded |-> 0,
                          totalRemoved |-> 0, fileCount |-> 0]

\* the candidates of this run that exist on disk, in the order they are tried
ExistingCandidates ==
    SelectSeq(configFiles(OptionValue(argv, "--config", NULL)),
              LAMBDA f : fsConfig[f].state # "absent")

\* the first configuration file the loader finds cannot be parsed
FirstConfigMalformed ==
    ExistingCandidates # <<>> /\ fsConfig[Head(ExistingCandidates)].state = "malformed"

\* C10 as stated: when a configuration file exists but cannot be parsed, a
\* warning is printed, nothing aborts, and the configuration is the default.
C10_MalformedGivesDefaults ==
    (pc = "main" /\ FirstConfigMalformed) =>
        /\ ParseWarning(Head(ExistingCandidates)) \in Elems(console)
        /\ exitCode = <<>>
        /\ config = defaultConfig

\* C10 amended: when a configuration file exists but cannot be parsed, a
\* warning is printed for it, nothing aborts, and the search goes on: the
\* configuration is the first later candidate that exists and parses, merged
\* over the defaults, and the default configuration (baseBranch main,
\* outputFile PR_SUMMARY.md unless the command line sets them, built-in
\* exclusion list) only when no candidate parses.
C10_MalformedSkipped ==
    (pc = "main" /\ FirstConfigMalformed) =>
        LET valid == SelectSeq(ExistingCandidates,
                               LAMBDA f : fsConfig[f].state = "valid")
        IN  /\ ParseWarning(Head(ExistingCandidates)) \in Elems(console)
            /\ exitCode = <<>>
            /\ config = IF valid = <<>> THEN defaultConfig
                        ELSE MergeConfig(defaultConfig, fsConfig[Head(valid)])
            /\ valid = <<>> =>
                  /\ config.excludePatterns = defaultExcludePatterns
                  /\ baseBranch = PositionalBase(argv, "main")
                  /\ outputFile = OptionValue(argv, "--output", "PR_SUMMARY.md")

C10_Witness ==
    /\ pc = "main"
    /\ argv = <<"--config", "custom.json">>
    /\ fsConfig["custom.json"] = MalformedFile
    /\ fsConfig[".prsummaryrc.json"] = DevelopConfigFile
    /\ config.baseBranch = "develop"
    /\ ParseWarning("custom.json") \in Elems(console)

\* the clipboard copy of this run failed
CopyFailed == "warn: Could not copy to clipboard" \in Elems(console)

\* the written content carries the AI prompt: its heading with the summary
\* file, its file list and its commit list
HoldsPrompt(content) ==
    /\ {"summaryFile", "files", "commits"} \subseteq DOMAIN content
    /\ content.summaryFile = aiPrompt.summaryFile
    /\ content.files = aiPrompt.files
    /\ content.commits = aiPrompt.commits

\* C11: after a run whose clipboard copy failed, the file at the output path
\* contains the generated AI prompt.
C11_PromptInOutputFile ==
    (pc = "exited" /\ exitCode = <<0>> /\ CopyFailed) =>
        \E i \in DOMAIN disk :
            disk[i].path = outputFile /\ HoldsPrompt(disk[i].content)

\* the path of a numstat line: its third tab-separated field
StatPath(line) ==
    IF Len(Split(line, "\t")) >= 3 THEN Split(line, "\t")[3] ELSE ""

\* the numstat lines of files that match no configured exclusion pattern
IncludedStatLines == SelectSeq(stats, LAMBDA l : ~MatchesConfigured(StatPath(l)))

\* C12: the file count and the line totals of the analysis, and of the
\* rendered "Files Modified" line, cover only files that match no exclusion
\* pattern.
C12_CountsSkipExcluded ==
    (pc = "exited" /\ exitCode = <<0>>) =>
        /\ analysis.fileCount = Len(IncludedStatLines)
        /\ analysis.totalAdded = StatTotals(IncludedStatLines).totalAdded
        /\ analysis.totalRemoved = StatTotals(IncludedStatLines).totalRemoved
        /\ template.fileCount = Len(IncludedStatLines)

-----------------------------------------------------------------------------
\* The two per-category renderers, called on the categories of generated
\* file lists: one category of up to MaxBucket files, up to MaxExtraKeys other
\* categories of one file each.

MaxBucket == 11      \* files in the largest category
MaxExtraKeys == 2    \* further categories holding one file

IndexChars == "abcdefghijklmnopqrstuvwxyz"

\* the i-th generated path that categorizeFiles puts in category `key`
GenPath(key, i) ==
    LET c == SubSeq(IndexChars, i, i)
    IN CASE key = "components" -> "src/components/C" \o c \o ".tsx"
         [] key = "hooks"      -> "src/hooks/use" \o c \o ".ts"
         [] key = "utils"      -> "src/utils/u" \o c \o ".ts"
         [] key = "types"      -> "src/types/t" \o c \o ".ts"
         [] key = "styles"     -> "src/s" \o c \o ".css"
         [] key = "tests"      -> "src/a" \o c \o ".test.ts"
         [] key = "docs"       -> "docs/d" \o c \o ".md"
         [] key = "config"     -> "cfg/c" \o c \o ".json"
         [] key = "scripts"    -> "scripts/s" \o c \o ".js"
         [] key = "other"      -> "src/o" \o c \o ".ts"

\* the changed files, listed from the last category key to the first
RECURSIVE GenFiles(_, _)
GenFiles(keys, size) ==
    IF keys = <<>> THEN <<>>
    ELSE GenFiles(Tail(keys), size)
         \o [i \in 1..size[Head(keys)] |-> GenPath(Head(keys), i)]

BucketSizes ==
    {[k \in Elems(CategoryKeys) |-> IF k = big THEN n ELSE IF k \in extra THEN 1 ELSE 0] :
        big \in Elems(CategoryKeys), n \in 0..MaxBucket,
        extra \in {e \in SUBSET Elems(CategoryKeys) : Cardinality(e) <= MaxExtraKeys}}

InitRender ==
    /\ pc = "generateChangesSection:call"
    /\ \E size \in BucketSizes : files = GenFiles(CategoryKeys, size)
    /\ config = defaultConfig
    /\ categories = categorizeFiles(files, defaultConfig)
    /\ argv = blankArgv /\ fsConfig = <<>> /\ repo = blankRepo
    /\ baseBranch = "" /\ outputFile = "" /\ currentBranch = ""
    /\ commits = <<>> /\ allFiles = <<>> /\ prType = PRType("", "")
    /\ stats = <<>> /\ analysis = blankAnalysis
    /\ suggestions = <<>> /\ template = blankTemplate /\ aiPrompt = blankPrompt
    /\ disk = <<>> /\ clipboard = <<>> /\ console = <<>> /\ events = <<>>
    /\ gitFailed = {} /\ exitCode = <<>>

CallGenerateChangesSection ==
    /\ pc = "generateChangesSection:call"
    /\ template' = [template EXCEPT !.changes = generateChangesSection(categories)]
    /\ pc' = "generateFileList:call"
    /\ UNCHANGED <<argv, fsConfig, repo, config, baseBranch, outputFile,
                   currentBranch, commits, allFiles, files, prType, categories,
                   stats, analysis, suggestions, aiPrompt, disk, clipboard,
                   console, events, gitFailed, exitCode>>

CallGenerateFileList ==
    /\ pc = "generateFileList:call"
    /\ template' = [template EXCEPT !.fileList = generateFileList(categories)]
    /\ pc' = "generateFileList:return"
    /\ UNCHANGED <<argv, fsConfig, repo, config, baseBranch, outputFile,
                   currentBranch, commits, allFiles, files, prType, categories,
                   stats, analysis, suggestions, aiPrompt, disk, clipboard,
                   console, events, gitFailed, exitCode>>

NextRender == CallGenerateChangesSection \/ CallGenerateFileList

SpecRender == InitRender /\ [][NextRender]_vars

\* the category keys in the order the claim gives
ClaimedKeyOrder ==
    << "components", "hooks", "utils", "types", "styles", "tests", "docs",
       "config", "scripts", "other" >>

\* what the claim says one non-empty category contributes below its heading:
\* its first `shown` files, then a note with N = size - shown when size > shown
ClaimedEntries(bucket, shown) ==
    [i \in 1..(IF Len(bucket) < shown THEN Len(bucket) ELSE shown) |->
        Item("file", bucket[i], 0)]
    \o (IF Len(bucket) > shown THEN <<Item("more", "", Len(bucket) - shown)>> ELSE <<>>)

\* the rendered items that follow the heading at position h, up to the next
\* heading
EntriesAfter(items, h) ==
    LET later == {j \in (h + 1)..Len(items) : items[j].kind = "heading"}
        stop  == IF later = {} THEN Len(items) + 1
                 ELSE CHOOSE j \in later : \A m \in later : j <= m
    IN SubSeq(items, h + 1, stop - 1)

\* the positions of the headings of a rendered section, in order
HeadingPositions(items) ==
    SelectSeq([i \in 1..Len(items) |-> i], LAMBDA i : items[i].kind = "heading")

\* a rendered section has one heading per non-empty category, in the claimed
\* key order, each followed by the claimed entries
AsClaimed(items, cats, shown, headingOf(_)) ==
    LET keys == SelectSeq(ClaimedKeyOrder, LAMBDA k : cats[k] # <<>>)
        hs   == HeadingPositions(items)
    IN /\ Len(hs) = Len(keys)
       /\ keys # <<>> => hs[1] = 1
       /\ \A j \in 1..Len(keys) :
            /\ items[hs[j]].text = headingOf(keys[j])
            /\ EntriesAfter(items, hs[j]) = ClaimedEntries(cats[keys[j]], shown)

\* C13: the changes section shows, for each non-empty category in the fixed
\* key order, its first 5 files and a note with N = size - 5 when it has more;
\* the file list shows the first 10 and a note with N = size - 10; empty
\* categories are omitted.
C13_Truncation ==
    pc = "generateFileList:return" =>
        /\ AsClaimed(template.changes, categories, 5,
                     LAMBDA k : categoryLabels[k])
        /\ AsClaimed(template.fileList, categories, 10,
                     LAMBDA k : Capitalize(k))

C13_Witness ==
    /\ pc = "generateFileList:return"
    /\ Len(categories["scripts"]) = 11
    /\ Len(categories["hooks"]) = 1
    /\ Item("more", "", 6) \in Elems(template.changes)
    /\ Item("more", "", 1) \in Elems(template.fileList)

-----------------------------------------------------------------------------
\* Order of the external steps of a run, read from the event log.

VersionControlQueries ==
    {"git rev-parse --git-dir", "git rev-parse --abbrev-ref HEAD",
     "git log --pretty", "git log --name-only", "git diff --numstat"}

ClassificationSteps == {"detectPRType", "categorizeFiles"}

\* every step named in `earlier` that occurs, occurs before every step named
\* in `later` that occurs
AllBefore(earlier, later) ==
    \A i, j \in DOMAIN events :
        (events[i] \in later /\ events[j] \in earlier) => j < i

AtMostOnce == \A i, j \in DOMAIN events : events[i] = events[j] => i = j

\* C14 as stated: each step at most once; every version-control query is
\* finished before classification starts; the file is written only after the
\* repository check and the rendering; the copy is attempted only after the
\* write.
C14_QueriesBeforeClassification ==
    /\ AtMostOnce
    /\ AllBefore(VersionControlQueries, ClassificationSteps)
    /\ AllBefore(ClassificationSteps, {"generateTemplate"})
    /\ "writeFileSync" \in Elems(events) =>
           /\ repo.isRepo
           /\ {"git rev-parse --git-dir", "generateTemplate"} \subseteq Elems(events)
    /\ AllBefore({"git rev-parse --git-dir", "generateTemplate"}, {"writeFileSync"})
    /\ "copy" \in Elems(events) => "writeFileSync" \in Elems(events)
    /\ AllBefore({"writeFileSync"}, {"copy"})

\* the steps of main in program order (lines 294-349)
RunOrder ==
    << "git rev-parse --git-dir", "git rev-parse --abbrev-ref HEAD",
       "git log --pretty", "git log --name-only", "detectPRType",
       "categorizeFiles", "git diff --numstat", "generateTemplate",
       "writeFileSync", "copy" >>

\* C14 (amended): the steps run at most once in the order of RunOrder, where
\* the diff-stat query comes after type detection and categorization; the
\* file is written only in a repository and after rendering, the copy only
\* after the write.
C14_StepOrder ==
    /\ Len(events) <= Len(RunOrder)
    /\ events = SubSeq(RunOrder, 1, Len(events))
    /\ AtMostOnce
    /\ AllBefore(VersionControlQueries \ {"git diff --numstat"}, ClassificationSteps)
    /\ AllBefore(ClassificationSteps, {"git diff --numstat"})
    /\ "writeFileSync" \in Elems(events) =>
           /\ repo.isRepo
           /\ {"git rev-parse --git-dir", "generateTemplate"} \subseteq Elems(events)
    /\ "copy" \in Elems(events) => "writeFileSync" \in Elems(events)
    /\ disk # <<>> => "writeFileSync" \in Elems(events)
    /\ Len(disk) <= 1

C14_Witness ==
    /\ pc = "exited" /\ exitCode = <<0>>
    /\ events = RunOrder
    /\ Len(disk) = 1

-----------------------------------------------------------------------------
\* Precedence among the categorization rules (SpecCategorize).

DirectoryKeys == <<"components", "hooks", "utils", "types", "scripts">>

MatchesDirectory(f, k) == Includes(f, k \o "/")

MatchesAnyDirectory(f) == \E k \in Elems(DirectoryKeys) : MatchesDirectory(f, k)

\* the extension tests of the styles, tests, docs and config rules
MatchesAnyExtension(f) ==
    MatchesStyles(f) \/ MatchesTests(f) \/ EndsWith(f, ".md") \/ MatchesConfig(f)

Kept(f) == f \in Elems(files) /\ ~MatchesExclusion(config.excludePatterns, f)

\* the first key of `keys` whose directory test f passes
FirstDirectory(f, keys) ==
    keys[CHOOSE i \in DOMAIN keys :
            /\ MatchesDirectory(f, keys[i])
            /\ \A j \in 1..(i - 1) : ~MatchesDirectory(f, keys[j])]

\* C15 as stated: a path that passes a directory test and an extension test
\* is placed in the category of a directory rule it passes.
C15_DirectoryWins ==
    pc = "categorizeFiles:return" =>
        \A f \in PathUniverse :
            (Kept(f) /\ MatchesAnyDirectory(f) /\ MatchesAnyExtension(f)) =>
                \E k \in Elems(DirectoryKeys) :
                    MatchesDirectory(f, k) /\ f \in Elems(categories[k])

\* C15 (amended): components/, hooks/, utils/ and types/ win over every
\* extension rule; scripts/ wins over the docs and config rules only, and a
\* style sheet or test file under scripts/ goes to styles or tests.
C15_DirectoryWinsExceptScripts ==
    pc = "categorizeFiles:return" =>
        \A f \in PathUniverse :
            (Kept(f) /\ MatchesAnyDirectory(f) /\ MatchesAnyExtension(f)) =>
                IF \E k \in Elems(SubSeq(DirectoryKeys, 1, 4)) : MatchesDirectory(f, k)
                THEN f \in Elems(categories[FirstDirectory(f, SubSeq(DirectoryKeys, 1, 4))])
                ELSE IF MatchesStyles(f) THEN f \in Elems(categories["styles"])
                ELSE IF MatchesTests(f) THEN f \in Elems(categories["tests"])
                ELSE f \in Elems(categories["scripts"])

C15_Witness ==
    /\ pc = "categorizeFiles:return"
    /\ files = <<"scripts/run.test.js", "src/hooks/theme.css">>
    /\ config = defaultConfig
    /\ categories["tests"] = <<"scripts/run.test.js">>
    /\ categories["hooks"] = <<"src/hooks/theme.css">>
    /\ categories["scripts"] = <<>>

\* f passes none of the tests that come before the docs rule in the chain
NoEarlierRule(f) ==
    /\ ~MatchesAnyDirectory(f)
    /\ ~MatchesStyles(f)
    /\ ~MatchesTests(f)

\* C16 as stated: every .md path that is not excluded and passes no earlier
\* rule is placed in docs.
C16_MarkdownIsDocs ==
    pc = "categorizeFiles:return" =>
        \A f \in PathUniverse :
            (Kept(f) /\ EndsWith(f, ".md") /\ NoEarlierRule(f)) =>
                f \in Elems(categories["docs"])

\* C16 (amended): such a path is placed in docs unless it contains
\* "node_modules", and then it is placed in other.
C16_MarkdownOutsideNodeModules ==
    pc = "categorizeFiles:return" =>
        \A f \in PathUniverse :
            (Kept(f) /\ EndsWith(f, ".md") /\ NoEarlierRule(f)) =>
                IF Includes(f, "node_modules")
                THEN f \in Elems(categories["other"]) /\ f \notin Elems(categories["docs"])
                ELSE f \in Elems(categories["docs"])

C16_Witness ==
    /\ pc = "categorizeFiles:return"
    /\ files = <<"lib/node_modules/README.md", "README.md">>
    /\ config = defaultConfig
    /\ categories["other"] = <<"lib/node_modules/README.md">>
    /\ categories["docs"] = <<"README.md">>

-----------------------------------------------------------------------------
\* analyzeComplexity on diff-stat lines with non-numeric fields: the "-" "-"
\* line git prints for a binary file, and lines with one unreadable field.

MaxMixedLines == 3

MixedLineUniverse ==
    { "50\t10\ta.ts", "201\t0\tbig.ts", "-\t-\tlogo.png", "250\t-\tx.bin",
      "-\t120\ty.bin" }

InitNumstat ==
    /\ pc = "analyzeComplexity:call"
    /\ stats \in SeqsUpTo(MixedLineUniverse, MaxMixedLines)
    /\ config = defaultConfig
    /\ argv = blankArgv /\ fsConfig = <<>> /\ repo = blankRepo
    /\ baseBranch = "" /\ outputFile = "" /\ currentBranch = ""
    /\ commits = <<>> /\ allFiles = <<>> /\ files = <<>> /\ prType = PRType("", "")
    /\ categories = emptyCategories /\ analysis = blankAnalysis
    /\ suggestions = <<>> /\ template = blankTemplate /\ aiPrompt = blankPrompt
    /\ disk = <<>> /\ clipboard = <<>> /\ console = <<>> /\ events = <<>>
    /\ gitFailed = {} /\ exitCode = <<>>

SpecNumstat == InitNumstat /\ [][CallAnalyzeLines]_vars

\* what each line of the universe reads as: the numeric value of each field,
\* 0 for a field that is not a number, and whether both fields are numbers
MixedFields ==
    [l \in MixedLineUniverse |->
        CASE l = "50\t10\ta.ts"    -> [added |-> 50,  removed |-> 10,  numeric |-> TRUE]
          [] l = "201\t0\tbig.ts"  -> [added |-> 201, removed |-> 0,   numeric |-> TRUE]
          [] l = "-\t-\tlogo.png"  -> [added |-> 0,   removed |-> 0,   numeric |-> FALSE]
          [] l = "250\t-\tx.bin"   -> [added |-> 250, removed |-> 0,   numeric |-> FALSE]
          [] l = "-\t120\ty.bin"   -> [added |-> 0,   removed |-> 120, numeric |-> FALSE]]

RECURSIVE SumSeq(_)
SumSeq(numbers) ==
    IF numbers = <<>> THEN 0 ELSE Head(numbers) + SumSeq(Tail(numbers))

SumMixed(lines, count(_)) == SumSeq([i \in DOMAIN lines |-> count(lines[i])])

\* the analysis that follows from per-line contributions `a` (added), `r`
\* (removed) and `big` (1 when the line counts as a large file)
AnalysisFrom(lines, a(_), r(_), big(_)) ==
    LET ta == SumMixed(lines, a)
        tr == SumMixed(lines, r)
        lf == SumMixed(lines, big)
    IN  [complexity   |-> complexityOf(ta + tr, lf),
         risk         |-> riskOf(ta, tr, ta + tr, lf),
         totalAdded   |-> ta,
         totalRemoved |-> tr,
         fileCount    |-> Len(lines)]

LargeWhenNumeric(l) ==
    IF MixedFields[l].numeric
       /\ MixedFields[l].added + MixedFields[l].removed > 200
    THEN 1 ELSE 0

\* C17 as stated: a line with a non-numeric added or removed field counts as
\* 0 added and 0 removed: it adds nothing to the totals or to largeFiles.
C17_TreatedAsZeroZero ==
    pc = "analyzeComplexity:return" =>
        analysis = AnalysisFrom(stats,
                       LAMBDA l : IF MixedFields[l].numeric THEN MixedFields[l].added ELSE 0,
                       LAMBDA l : IF MixedFields[l].numeric THEN MixedFields[l].removed ELSE 0,
                       LargeWhenNumeric)

\* C17 (amended): each non-numeric field counts as 0 in its own total, a
\* numeric field next to it still counts in its total, and the line is
\* never a large file.
C17_FieldwiseZero ==
    pc = "analyzeComplexity:return" =>
        analysis = AnalysisFrom(stats,
                       LAMBDA l : MixedFields[l].added,
                       LAMBDA l : MixedFields[l].removed,
                       LargeWhenNumeric)

C17_Witness ==
    /\ pc = "analyzeComplexity:return"
    /\ stats = <<"250\t-\tx.bin", "-\t-\tlogo.png", "250\t-\tx.bin">>
    /\ analysis.totalAdded = 500
    /\ analysis.totalRemoved = 0
    /\ analysis.risk = "Low"
    /\ analysis.fileCount = 3

-----------------------------------------------------------------------------
\* Risk against complexity (SpecAnalyze).

\* C18 as stated: some list of diff-stat lines gives risk High together with
\* complexity Low.
C18_HighRiskLowComplexityExists ==
    pc = "analyzeComplexity:return" =>
        \E q \in SeqsUpTo(StatLineUniverse, MaxStatLines) :
            analyzeLines(q).risk = "High" /\ analyzeLines(q).complexity = "Low"

\* C18 (amended): whenever the analysis reports risk High it reports
\* complexity High; complexity Low comes only with risk Low or Medium.
C18_HighRiskIsHighComplexity ==
    /\ analysis.risk = "High" => analysis.complexity = "High"
    /\ analysis.complexity = "Low" => analysis.risk \in {"Low", "Medium"}

C18_Witness ==
    /\ pc = "analyzeComplexity:return"
    /\ stats = [i \in 1..6 |-> "50\t160\tb.ts"]
    /\ analysis.totalAdded + analysis.totalRemoved = 1260
    /\ analysis.risk = "High"
    /\ analysis.complexity = "High"

====
